---- MODULE Spec2Model ----
(***************************************************************************)
(* Model of openapigenerator2.ts: the transformation core that derives the *)
(* common base path of an OpenAPI document, derives an identifier for each *)
(* endpoint path and synthesizes one wrapper function per (path, method).  *)
(*                                                                         *)
(* A JavaScript string is a sequence of one-character strings, so that     *)
(* indexOf, substring, slice, replace and split are modelled character by  *)
(* character.  The fixed fragments of the emitted source text (for example *)
(* "export async function ") are kept as single tokens of such a sequence: *)
(* the code only concatenates them, it never looks inside them.            *)
(***************************************************************************)
EXTENDS Integers, Sequences, FiniteSets, TLC

VARIABLES
  pc,            \* position of the run being modelled
  paths,         \* extractCommonBasePath: its argument (string[])
  result,        \* extractCommonBasePath: its return value
  result2,       \* extractCommonBasePath applied to [result]
  str,           \* capitalizeCamelCase: its argument
  ident,         \* capitalizeCamelCase: its return value
  spec,          \* main: the parsed document (spec.paths, in key order)
  baseUrl,       \* main: const baseUrl
  functions,     \* generateRoutesContent: const functions: string[]
  pi,            \* generateRoutesContent: index of the path entry being iterated
  mi,            \* generateRoutesContent: index of the next method of that entry
  relativePath,  \* generateRoutesContent: const relativePath
  cur,           \* generateRoutesContent: the locals of the last inner iteration
  routesContent  \* main: const routesContent

vars == <<pc, paths, result, result2, str, ident, spec, baseUrl, functions,
          pi, mi, relativePath, cur, routesContent>>

(***************************************************************************)
(* Bounds of the model.                                                    *)
(***************************************************************************)
MaxPaths == 2      \* SpecPrefix: number of strings handed to extractCommonBasePath
MaxLen == 3        \* SpecPrefix: length of each of those strings
MaxStrLen == 4     \* SpecIdent: length of the generated capitalizeCamelCase inputs
MaxDocPaths == 2   \* Spec: number of path entries of a document

(***************************************************************************)
(* JavaScript string primitives.                                           *)
(***************************************************************************)
Empty == <<>>

\* All strings over alphabet A of length at most n.
StringsUpTo(A, n) == UNION {[1..k -> A] : k \in 0..n}

\* s.substring(a, b) for 0 <= a <= b <= s.length
Substring(s, a, b) == SubSeq(s, a + 1, b)

\* whether t occurs in s at 0-based position i
OccursAt(s, t, i) ==
  /\ i >= 0
  /\ i + Len(t) <= Len(s)
  /\ Substring(s, i, i + Len(t)) = t

\* s.indexOf(t): the least position at which t occurs, -1 if there is none
IndexOf(s, t) ==
  LET hits == {i \in 0..Len(s) : OccursAt(s, t, i)}
  IN  IF hits = {} THEN -1 ELSE CHOOSE i \in hits : \A j \in hits : i <= j

\* s.endsWith(c) for a one-character c
EndsWith(s, c) == Len(s) > 0 /\ s[Len(s)] = c

\* s.slice(0, -1)
SliceDropLast(s) == IF Len(s) = 0 THEN Empty ELSE SubSeq(s, 1, Len(s) - 1)

(***************************************************************************)
(* findCommonPrefix (lines 91-101).                                        *)
(***************************************************************************)
\* A variant of the loop that tests "occurs somewhere" (indexOf(prefix) !== -1)
\* where the code tests "occurs at position 0".
RECURSIVE ShrinkPrefixAnywhere(_, _)
ShrinkPrefixAnywhere(s, prefix) ==
  IF IndexOf(s, prefix) # -1
    THEN [ret |-> FALSE, prefix |-> prefix]
    ELSE LET shorter == Substring(prefix, 0, Len(prefix) - 1)
         IN  IF shorter = Empty
               THEN [ret |-> TRUE, prefix |-> Empty]
               ELSE ShrinkPrefixAnywhere(s, shorter)

\* The while loop of lines 95-98 for one strings[i]: shrinks prefix until it
\* occurs at position 0 of s; ret is set when line 97 returns '' from the
\* whole function.
RECURSIVE ShrinkPrefix(_, _)
ShrinkPrefix(s, prefix) ==
  IF IndexOf(s, prefix) = 0
    THEN [ret |-> FALSE, prefix |-> prefix]
    ELSE LET shorter == Substring(prefix, 0, Len(prefix) - 1)
         IN  IF shorter = Empty
               THEN [ret |-> TRUE, prefix |-> Empty]
               ELSE ShrinkPrefix(s, shorter)

\* The for loop of lines 94-99, from index i (1-based here) on.
RECURSIVE PrefixLoop(_, _, _)
PrefixLoop(strings, i, prefix) ==
  IF i > Len(strings)
    THEN prefix
    ELSE LET r == ShrinkPrefix(strings[i], prefix)
         IN  IF r.ret THEN Empty ELSE PrefixLoop(strings, i + 1, r.prefix)

findCommonPrefix(strings) ==
  IF Len(strings) = 0 THEN Empty ELSE PrefixLoop(strings, 2, strings[1])

(***************************************************************************)
(* extractCommonBasePath (lines 84-88).                                    *)
(***************************************************************************)
\* A variant that removes the last character whatever it is.
ExtractAlwaysSlice(ps) ==
  IF Len(ps) = 0 THEN Empty ELSE SliceDropLast(findCommonPrefix(ps))

\* A variant that never removes the trailing separator.
ExtractNoSlice(ps) ==
  IF Len(ps) = 0 THEN Empty ELSE findCommonPrefix(ps)

extractCommonBasePath(ps) ==
  IF Len(ps) = 0
    THEN Empty
    ELSE LET commonPrefix == findCommonPrefix(ps)
         IN  IF EndsWith(commonPrefix, "/")
               THEN SliceDropLast(commonPrefix)
               ELSE commonPrefix

(***************************************************************************)
(* capitalizeCamelCase (lines 210-219).                                    *)
(***************************************************************************)
LowerLetters ==
  <<"a", "b", "c", "d", "e", "f", "g", "h", "i", "j", "k", "l", "m",
    "n", "o", "p", "q", "r", "s", "t", "u", "v", "w", "x", "y", "z">>
UpperLetters ==
  <<"A", "B", "C", "D", "E", "F", "G", "H", "I", "J", "K", "L", "M",
    "N", "O", "P", "Q", "R", "S", "T", "U", "V", "W", "X", "Y", "Z">>
Digits == {"0", "1", "2", "3", "4", "5", "6", "7", "8", "9"}

Range(f) == {f[x] : x \in DOMAIN f}

\* the character class [a-zA-Z0-9]
IsAlnum(c) == c \in Range(LowerLetters) \cup Range(UpperLetters) \cup Digits

\* c.toUpperCase() for one character of the modelled (ASCII) alphabet
ToUpperChar(c) ==
  IF c \in Range(LowerLetters)
    THEN UpperLetters[CHOOSE k \in DOMAIN LowerLetters : LowerLetters[k] = c]
    ELSE c

\* c.toLowerCase() for one character of the modelled (ASCII) alphabet
ToLowerChar(c) ==
  IF c \in Range(UpperLetters)
    THEN LowerLetters[CHOOSE k \in DOMAIN UpperLetters : UpperLetters[k] = c]
    ELSE c

\* s.toLowerCase()
ToLowerCase(s) == [k \in 1..Len(s) |-> ToLowerChar(s[k])]

\* .replace(/^\//, '') of line 212
StripLeadingSlash(s) == IF Len(s) > 0 /\ s[1] = "/" THEN Tail(s) ELSE s

\* position of the first '}' at or after position i of s, 0 if there is none
NextClose(s, i) ==
  LET hits == {j \in i..Len(s) : s[j] = "}"}
  IN  IF hits = {} THEN 0 ELSE CHOOSE j \in hits : \A k \in hits : j <= k

\* A variant that leaves every brace in place (line 213 left out).
KeepBraces(s, i) == IF i > Len(s) THEN Empty ELSE SubSeq(s, i, Len(s))

\* .replace(/{([^}]+)}/g, '$1') of line 213, scanning s from position i: a
\* '{' followed by one or more characters other than '}' and then a '}' is
\* replaced by the characters between them; everything else is kept.
RECURSIVE RemoveBraces(_, _)
RemoveBraces(s, i) ==
  IF i > Len(s)
    THEN Empty
    ELSE LET j == NextClose(s, i + 1)
         IN  IF s[i] = "{" /\ j >= i + 2
               THEN SubSeq(s, i + 1, j - 1) \o RemoveBraces(s, j + 1)
               ELSE <<s[i]>> \o RemoveBraces(s, i + 1)

\* .split(/[^a-zA-Z0-9]+/) of line 214, scanning s from position i: acc holds
\* the finished parts, part the one being read, inSep whether the previous
\* character belonged to a separator run.  A leading or trailing separator
\* run yields an empty part, and '' splits into [''].
RECURSIVE SplitNonAlnum(_, _, _, _, _)
SplitNonAlnum(s, i, acc, part, inSep) ==
  IF i > Len(s)
    THEN Append(acc, part)
    ELSE IF IsAlnum(s[i])
           THEN SplitNonAlnum(s, i + 1, acc, Append(part, s[i]), FALSE)
           ELSE IF inSep
                  THEN SplitNonAlnum(s, i + 1, acc, part, TRUE)
                  ELSE SplitNonAlnum(s, i + 1, Append(acc, part), Empty, TRUE)

\* part.charAt(0).toUpperCase() + part.slice(1) of line 216
CapitalizePart(part) ==
  IF Len(part) = 0 THEN Empty ELSE <<ToUpperChar(part[1])>> \o Tail(part)

\* .join('') of line 218
RECURSIVE JoinEmpty(_)
JoinEmpty(parts) ==
  IF Len(parts) = 0 THEN Empty ELSE Head(parts) \o JoinEmpty(Tail(parts))

capitalizeCamelCase(s) ==
  LET noSlash == StripLeadingSlash(s)
      noBraces == RemoveBraces(noSlash, 1)
      parts == SplitNonAlnum(noBraces, 1, <<>>, Empty, FALSE)
      capped == [k \in 1..Len(parts) |-> CapitalizePart(parts[k])]
  IN  JoinEmpty(capped)

(***************************************************************************)
(* The parsed document (interfaces of lines 30-46).  An object is the      *)
(* sequence of its entries in property order; the keys of the modelled     *)
(* documents are paths starting with '/' and method names, for which       *)
(* property order is insertion order.  An optional member that is absent   *)
(* has defined = FALSE (parameters) or the value "undefined" (requestBody).*)
(***************************************************************************)
\* A variant that walks an object from its last entry to its first.
ObjectEntriesReversed(obj) == [k \in 1..Len(obj) |-> obj[Len(obj) + 1 - k]]

\* Object.entries(obj) (lines 176 and 178)
ObjectEntries(obj) == obj

\* Object.keys(spec.paths) (line 233)
ObjectKeys(obj) == [k \in 1..Len(obj) |-> obj[k].path]

\* !!operation.requestBody (line 181)
Truthy(v) == v \notin {"undefined", "null"}

(***************************************************************************)
(* generateRoutesContent (lines 172-208).                                  *)
(***************************************************************************)
\* A variant that removes the last occurrence of pat.
ReplaceLast(s, pat) ==
  LET hits == {i \in 0..Len(s) : OccursAt(s, pat, i)}
  IN  IF hits = {}
        THEN s
        ELSE LET at == CHOOSE i \in hits : \A j \in hits : j <= i
             IN  Substring(s, 0, at) \o Substring(s, at + Len(pat), Len(s))

\* s.replace(pat, '') for a string pat (line 177): the first occurrence of
\* pat is removed, s is returned as it is when pat does not occur
ReplaceFirst(s, pat) ==
  LET at == IndexOf(s, pat)
  IN  IF at = -1
        THEN s
        ELSE Substring(s, 0, at) \o Substring(s, at + Len(pat), Len(s))

\* s.replace(/{/g, '${') (line 195)
RECURSIVE ReplaceOpenBraces(_)
ReplaceOpenBraces(s) ==
  IF Len(s) = 0
    THEN Empty
    ELSE (IF Head(s) = "{" THEN <<"$", "{">> ELSE <<Head(s)>>)
         \o ReplaceOpenBraces(Tail(s))

\* parts.join(sep) for a one-token separator
RECURSIVE Join(_, _)
Join(parts, sep) ==
  IF Len(parts) = 0
    THEN Empty
    ELSE IF Len(parts) = 1
           THEN Head(parts)
           ELSE Head(parts) \o <<sep>> \o Join(Tail(parts), sep)

\* A variant that keeps the name of every declared parameter.
AllParamNames(operation) ==
  IF operation.parameters.defined
    THEN [k \in 1..Len(operation.parameters.items) |->
            operation.parameters.items[k].name]
    ELSE <<>>

\* operation.parameters?.filter(p => p.in === 'path').map(p => p.name) || []
\* (line 180)
PathParamNames(operation) ==
  IF operation.parameters.defined
    THEN LET kept == SelectSeq(operation.parameters.items,
                               LAMBDA p : p.in = "path")
         IN  [k \in 1..Len(kept) |-> kept[k].name]
    ELSE <<>>

\* The delimiters of the emitted path expression: the single quote of a plain
\* literal and the backquote of a template literal.  A TLA+ string cannot
\* hold a lone backquote, so that one character is written as a named token.
Quote == "'"
Backtick == "BACKTICK"

\* A variant that chooses the template by the braces of the path.
ApiPathByPlaceholder(relPath, params) ==
  IF (\E k \in 1..Len(relPath) : relPath[k] = "{")
    THEN <<Backtick>> \o ReplaceOpenBraces(relPath) \o <<Backtick>>
    ELSE <<Quote>> \o relPath \o <<Quote>>

\* let apiPath (lines 193-196)
ApiPath(relPath, params) ==
  IF Len(params) > 0
    THEN <<Backtick>> \o ReplaceOpenBraces(relPath) \o <<Backtick>>
    ELSE <<Quote>> \o relPath \o <<Quote>>

\* let functionDefinition (lines 183-190)
FunctionDefinition(functionName, params, hasRequestBody) ==
  <<"export async function ">> \o functionName \o <<"(">>
  \o (IF Len(params) > 0
        THEN Join(params, ", ") \o (IF hasRequestBody THEN <<", ">> ELSE Empty)
        ELSE Empty)
  \o (IF hasRequestBody THEN <<"requestBody: any">> ELSE Empty)
  \o <<"): Promise<any> {">>

\* the line pushed at line 199 or at line 201
ReturnLine(method, apiPath, hasRequestBody) ==
  <<"  return apiClient.">> \o ToLowerCase(method) \o <<"(">> \o apiPath
  \o (IF hasRequestBody THEN <<", requestBody);">> ELSE <<");">>)

ImportLine == <<"import { apiClient } from './client';\n">>
CloseLine == <<"}\n">>

\* One iteration of the inner loop (lines 179-203): its locals and the three
\* lines it pushes.
Iteration(path, relPath, method, operation) ==
  LET functionName == ToLowerCase(method) \o capitalizeCamelCase(relPath)
      params == PathParamNames(operation)
      hasRequestBody == Truthy(operation.requestBody)
      apiPath == ApiPath(relPath, params)
  IN  [set |-> TRUE,
       path |-> path,
       relativePath |-> relPath,
       method |-> method,
       operation |-> operation,
       functionName |-> functionName,
       params |-> params,
       hasRequestBody |-> hasRequestBody,
       functionDefinition |->
         FunctionDefinition(functionName, params, hasRequestBody),
       apiPath |-> apiPath,
       returnLine |-> ReturnLine(method, apiPath, hasRequestBody)]

(***************************************************************************)
(* SpecPrefix: extractCommonBasePath applied to every bounded input, then  *)
(* applied again to the one-element array holding its own result.          *)
(***************************************************************************)
PrefixAlphabet == {"/", "a"}
PrefixStrings == StringsUpTo(PrefixAlphabet, MaxLen)
PrefixInputs == UNION {[1..k -> PrefixStrings] : k \in 0..MaxPaths}

Idle ==
  /\ str = Empty /\ ident = Empty
  /\ spec = <<>> /\ baseUrl = Empty /\ functions = <<>>
  /\ pi = 0 /\ mi = 0 /\ relativePath = Empty
  /\ cur = [set |-> FALSE]
  /\ routesContent = <<>>

InitPrefix ==
  /\ pc = "prefix"
  /\ paths \in PrefixInputs
  /\ result = Empty /\ result2 = Empty
  /\ Idle

ExtractStep ==
  /\ pc = "prefix"
  /\ result' = extractCommonBasePath(paths)
  /\ pc' = "extracted"
  /\ UNCHANGED <<paths, result2, str, ident, spec, baseUrl, functions, pi, mi,
                 relativePath, cur, routesContent>>

ReapplyStep ==
  /\ pc = "extracted"
  /\ result2' = extractCommonBasePath(<<result>>)
  /\ pc' = "reapplied"
  /\ UNCHANGED <<paths, result, str, ident, spec, baseUrl, functions, pi, mi,
                 relativePath, cur, routesContent>>

NextPrefix == ExtractStep \/ ReapplyStep

SpecPrefix == InitPrefix /\ [][NextPrefix]_vars

(***************************************************************************)
(* SpecIdent: capitalizeCamelCase applied to every bounded input and to    *)
(* the documented examples.                                                *)
(***************************************************************************)
IdentAlphabet == {"/", "{", "}", "-", "a", "b", "Z"}

PathUsersId == <<"/", "u", "s", "e", "r", "s", "/", "{", "i", "d", "}">>
PathRoot == <<"/">>
PathABC == <<"/", "a", "-", "b", "_", "c">>

IdentInputs ==
  StringsUpTo(IdentAlphabet, MaxStrLen) \cup {PathUsersId, PathRoot, PathABC}

InitIdent ==
  /\ pc = "ident"
  /\ str \in IdentInputs
  /\ ident = Empty
  /\ paths = <<>> /\ result = Empty /\ result2 = Empty
  /\ spec = <<>> /\ baseUrl = Empty /\ functions = <<>>
  /\ pi = 0 /\ mi = 0 /\ relativePath = Empty
  /\ cur = [set |-> FALSE]
  /\ routesContent = <<>>

DeriveStep ==
  /\ pc = "ident"
  /\ ident' = capitalizeCamelCase(str)
  /\ pc' = "derived"
  /\ UNCHANGED <<paths, result, result2, str, spec, baseUrl, functions, pi, mi,
                 relativePath, cur, routesContent>>

NextIdent == DeriveStep

SpecIdent == InitIdent /\ [][NextIdent]_vars

(***************************************************************************)
(* Spec: main (lines 221-253) on a document: the common base path, then    *)
(* generateRoutesContent, one step per loop iteration.                     *)
(***************************************************************************)
PathApiUsers == <<"/", "a", "p", "i", "/", "u", "s", "e", "r", "s">>
PathApiUsersId == <<"/", "a", "p", "i", "/", "u", "s", "e", "r", "s", "/", "{", "i", "d", "}">>
PathA == <<"/", "a">>
PathASlash == <<"/", "a", "/">>
PathAbA == <<"/", "a", "b", "/", "a">>
PathXIda == <<"/", "x", "/", "{", "i", "d", "a", "}">>
PathXIdb == <<"/", "x", "/", "{", "i", "d", "b", "}">>
PathUIdK == <<"/", "u", "/", "{", "i", "d", "}", "/", "{", "k", "}">>

DocPaths ==
  {PathApiUsers, PathApiUsersId, PathA, PathASlash, PathAbA, PathXIda,
   PathXIdb, PathUIdK}

NameId == <<"i", "d">>
NameK == <<"k">>
NameQ == <<"q">>
MethodGet == <<"g", "e", "t">>
MethodPost == <<"p", "o", "s", "t">>
MethodPutUpper == <<"P", "U", "T">>

NoParameters == [defined |-> FALSE, items |-> <<>>]
Parameters(items) == [defined |-> TRUE, items |-> items]
InPath(name) == [in |-> "path", name |-> name]
InQuery(name) == [in |-> "query", name |-> name]

\* {"get": {}}
MethodsGetPlain ==
  <<[method |-> MethodGet,
     operation |-> [parameters |-> NoParameters, requestBody |-> "undefined"]]>>

\* {"get": {"parameters": [{"in": "path", "name": "id"}]}}
MethodsGetId ==
  <<[method |-> MethodGet,
     operation |-> [parameters |-> Parameters(<<InPath(NameId)>>),
                    requestBody |-> "undefined"]]>>

\* {"post": {"parameters": [query q, path k, path id], "requestBody": {}},
\*  "get": {"parameters": [query q], "requestBody": null}}
MethodsPostGet ==
  <<[method |-> MethodPost,
     operation |-> [parameters |->
                      Parameters(<<InQuery(NameQ), InPath(NameK), InPath(NameId)>>),
                    requestBody |-> "object"]],
    [method |-> MethodGet,
     operation |-> [parameters |-> Parameters(<<InQuery(NameQ)>>),
                    requestBody |-> "null"]]>>

\* {"PUT": {"parameters": [], "requestBody": {}}}
MethodsPutUpper ==
  <<[method |-> MethodPutUpper,
     operation |-> [parameters |-> Parameters(<<>>), requestBody |-> "object"]]>>

\* a path item with no method
MethodsNone == <<>>

DocMethods ==
  {MethodsGetPlain, MethodsGetId, MethodsPostGet, MethodsPutUpper, MethodsNone}

\* spec.paths: at most MaxDocPaths entries with pairwise different keys
Documents ==
  {d \in UNION {[1..n -> [path : DocPaths, methods : DocMethods]] :
                  n \in 0..MaxDocPaths} :
     \A i, j \in 1..Len(d) : i # j => d[i].path # d[j].path}

Init ==
  /\ pc = "main"
  /\ spec \in Documents
  /\ baseUrl = Empty
  /\ functions = <<>>
  /\ pi = 0 /\ mi = 0
  /\ relativePath = Empty
  /\ cur = [set |-> FALSE]
  /\ routesContent = <<>>
  /\ paths = <<>> /\ result = Empty /\ result2 = Empty
  /\ str = Empty /\ ident = Empty

\* lines 233 and 173-174: the base path, then generateRoutesContent starts
\* with the import line
MainStep ==
  /\ pc = "main"
  /\ baseUrl' = extractCommonBasePath(ObjectKeys(spec))
  /\ functions' = <<ImportLine>>
  /\ pi' = 0 /\ mi' = 0
  /\ pc' = "paths"
  /\ UNCHANGED <<paths, result, result2, str, ident, spec, relativePath, cur,
                 routesContent>>

\* lines 176-177: the outer loop takes the next path entry
PathStep ==
  /\ pc = "paths"
  /\ pi < Len(spec)
  /\ pi' = pi + 1
  /\ relativePath' = ReplaceFirst(ObjectEntries(spec)[pi + 1].path, baseUrl)
  /\ mi' = 0
  /\ pc' = "methods"
  /\ UNCHANGED <<paths, result, result2, str, ident, spec, baseUrl, functions,
                 cur, routesContent>>

\* lines 178-203: the inner loop takes the next method of the path entry
FunctionStep ==
  /\ pc = "methods"
  /\ mi < Len(ObjectEntries(spec)[pi].methods)
  /\ LET entry == ObjectEntries(spec)[pi]
         m == ObjectEntries(entry.methods)[mi + 1]
         it == Iteration(entry.path, relativePath, m.method, m.operation)
     IN  /\ cur' = it
         /\ functions' =
              functions \o <<it.functionDefinition, it.returnLine, CloseLine>>
  /\ mi' = mi + 1
  /\ UNCHANGED <<pc, paths, result, result2, str, ident, spec, baseUrl, pi,
                 relativePath, routesContent>>

\* the inner loop ends
PathDoneStep ==
  /\ pc = "methods"
  /\ mi = Len(ObjectEntries(spec)[pi].methods)
  /\ pc' = "paths"
  /\ UNCHANGED <<paths, result, result2, str, ident, spec, baseUrl, functions,
                 pi, mi, relativePath, cur, routesContent>>

\* line 207: the outer loop has ended, the lines are joined
JoinStep ==
  /\ pc = "paths"
  /\ pi = Len(spec)
  /\ routesContent' = Join(functions, "\n")
  /\ pc' = "done"
  /\ UNCHANGED <<paths, result, result2, str, ident, spec, baseUrl, functions,
                 pi, mi, relativePath, cur>>

Next == MainStep \/ PathStep \/ FunctionStep \/ PathDoneStep \/ JoinStep

Spec == Init /\ [][Next]_vars

(***************************************************************************)
(* Reference notions for the prefix claims, stated without the loop.       *)
(***************************************************************************)
IsPrefix(q, s) == Len(q) <= Len(s) /\ \A k \in 1..Len(q) : q[k] = s[k]

IsCommonPrefix(q, P) == \A i \in 1..Len(P) : IsPrefix(q, P[i])

\* The longest string that is a prefix of every element; '' for no element.
LongestCommonPrefix(P) ==
  IF Len(P) = 0
    THEN Empty
    ELSE LET cands == {SubSeq(P[1], 1, n) : n \in 0..Len(P[1])}
         IN  CHOOSE q \in cands :
               /\ IsCommonPrefix(q, P)
               /\ \A q2 \in cands : IsCommonPrefix(q2, P) => Len(q2) <= Len(q)

\* C2: extractCommonBasePath returns the longest common character prefix L of
\* its argument with exactly one trailing '/' removed when L ends in '/', and
\* L itself otherwise; the result is a prefix of every input path.
C2_ExtractIsTrimmedLongestCommonPrefix ==
  pc \in {"extracted", "reapplied"} =>
    LET L == LongestCommonPrefix(paths)
    IN  /\ EndsWith(L, "/") => result \o <<"/">> = L
        /\ ~EndsWith(L, "/") => result = L
        /\ IsCommonPrefix(result, paths)

\* Two different paths whose common prefix ends in '/' and is trimmed to a
\* non-empty result.
C2_Witness ==
  /\ pc = "extracted"
  /\ Len(paths) = 2
  /\ paths[1] # paths[2]
  /\ EndsWith(LongestCommonPrefix(paths), "/")
  /\ Len(result) >= 1

\* C3 as stated: for a single-element input [p] extractCommonBasePath returns
\* p unchanged, also when p ends in '/'.
C3_SingleElementUnchanged ==
  (pc \in {"extracted", "reapplied"} /\ Len(paths) = 1) => result = paths[1]

\* C3 amended: for a single-element input [p] extractCommonBasePath returns p
\* unchanged when p does not end in '/', and p without its last '/' (exactly
\* one character shorter) when it does.
C3_SingleElementTrimmedOnce ==
  (pc \in {"extracted", "reapplied"} /\ Len(paths) = 1) =>
    /\ ~EndsWith(paths[1], "/") => result = paths[1]
    /\ EndsWith(paths[1], "/") => result \o <<"/">> = paths[1]

\* A single path of two or more characters that ends in '/'.
C3_Witness ==
  /\ pc = "extracted"
  /\ Len(paths) = 1
  /\ Len(paths[1]) >= 2
  /\ EndsWith(paths[1], "/")
  /\ result # paths[1]

\* C4 as stated: extractCommonBasePath([extractCommonBasePath(P)]) equals
\* extractCommonBasePath(P) for every P.
C4_Idempotent ==
  pc = "reapplied" => result2 = result

\* C4 amended: re-application to the singleton result returns the same string
\* exactly when extractCommonBasePath(P) does not itself end in '/', that is,
\* when the common prefix of P does not end in two or more '/'; otherwise one
\* more '/' is removed.
C4_IdempotentUnlessDoubleSlash ==
  pc = "reapplied" =>
    /\ ~EndsWith(result, "/") => result2 = result
    /\ EndsWith(result, "/") => result2 \o <<"/">> = result
    /\ EndsWith(result, "/") <=>
         LET L == LongestCommonPrefix(paths)
         IN  Len(L) >= 2 /\ L[Len(L)] = "/" /\ L[Len(L) - 1] = "/"

\* A re-application after a trim: two different paths, common prefix ending
\* in a single '/', non-empty result that the second application keeps.
C4_Witness ==
  /\ pc = "reapplied"
  /\ Len(paths) = 2
  /\ paths[1] # paths[2]
  /\ EndsWith(LongestCommonPrefix(paths), "/")
  /\ result # Empty
  /\ result2 = result

(***************************************************************************)
(* Reference for the identifier claim: the five steps, stated per          *)
(* character and without the regular expressions.                          *)
(***************************************************************************)
\* steps 1 and 2: one leading '/' dropped, then every '{' and '}' dropped
RefDelimitersRemoved(s) ==
  SelectSeq(IF Len(s) > 0 /\ s[1] = "/" THEN SubSeq(s, 2, Len(s)) ELSE s,
            LAMBDA c : c \notin {"{", "}"})

\* steps 3 to 5 on t from position k: an alphanumeric character is kept,
\* uppercased when it starts a fragment; every other character is dropped
RECURSIVE RefPascal(_, _)
RefPascal(t, k) ==
  IF k > Len(t)
    THEN Empty
    ELSE (IF ~IsAlnum(t[k])
            THEN Empty
            ELSE IF k = 1 \/ ~IsAlnum(t[k - 1])
                   THEN <<ToUpperChar(t[k])>>
                   ELSE <<t[k]>>)
         \o RefPascal(t, k + 1)

RefIdentifier(s) == RefPascal(RefDelimitersRemoved(s), 1)

\* every '{' opens and every '}' closes a placeholder {name} whose name is
\* non-empty and holds no brace
WellFormedPlaceholders(s) ==
  /\ \A i \in 1..Len(s) : s[i] = "{" =>
       \E j \in (i + 2)..Len(s) :
         s[j] = "}" /\ \A k \in (i + 1)..(j - 1) : s[k] \notin {"{", "}"}
  /\ \A j \in 1..Len(s) : s[j] = "}" =>
       \E i \in 1..(j - 2) :
         s[i] = "{" /\ \A k \in (i + 1)..(j - 1) : s[k] \notin {"{", "}"}

\* C9 as stated: for every string, also one with unmatched or empty braces,
\* capitalizeCamelCase equals the five-step reference.
C9_IdentifierIsFiveStepReference ==
  pc = "derived" => ident = RefIdentifier(str)

\* C9 amended: for every string whose braces all belong to well-formed
\* placeholders {name} (name non-empty, without braces) capitalizeCamelCase
\* equals the five-step reference; '/users/{id}' gives 'UsersId', '/' gives ''
\* and '/a-b_c' gives 'ABC'.
C9_IdentifierOnWellFormedPlaceholders ==
  pc = "derived" =>
    /\ WellFormedPlaceholders(str) => ident = RefIdentifier(str)
    /\ str = PathUsersId => ident = <<"U", "s", "e", "r", "s", "I", "d">>
    /\ str = PathRoot => ident = Empty
    /\ str = PathABC => ident = <<"A", "B", "C">>

\* A derived identifier for a path with a placeholder that directly follows
\* an alphanumeric character, so that removing the delimiters joins fragments.
C9_Witness ==
  /\ pc = "derived"
  /\ WellFormedPlaceholders(str)
  /\ \E i \in 2..Len(str) : str[i] = "{" /\ IsAlnum(str[i - 1])
  /\ Len(ident) >= 2

(***************************************************************************)
(* Claims about main and generateRoutesContent, checked under Spec.        *)
(***************************************************************************)
\* {"/api/users": {"get": {}},
\*  "/api/users/{id}": {"get": {"parameters": [{"in": "path", "name": "id"}]}}}
ScenarioDocument ==
  <<[path |-> PathApiUsers, methods |-> MethodsGetPlain],
    [path |-> PathApiUsersId, methods |-> MethodsGetId]>>

\* C1 as stated: for the two-path scenario document the common prefix is
\* '/api' and exactly two functions are emitted after the import line:
\* getUsers() calling the plain literal '/users' and getUsersId(id) calling
\* the template /users/${id}.
C1_EndToEndScenario ==
  (pc = "done" /\ spec = ScenarioDocument) =>
    /\ baseUrl = <<"/", "a", "p", "i">>
    /\ functions =
         <<ImportLine,
           <<"export async function ", "g", "e", "t", "U", "s", "e", "r", "s",
             "(", "): Promise<any> {">>,
           <<"  return apiClient.", "g", "e", "t", "(",
             Quote, "/", "u", "s", "e", "r", "s", Quote, ");">>,
           CloseLine,
           <<"export async function ",
             "g", "e", "t", "U", "s", "e", "r", "s", "I", "d",
             "(", "i", "d", "): Promise<any> {">>,
           <<"  return apiClient.", "g", "e", "t", "(",
             Backtick, "/", "u", "s", "e", "r", "s", "/",
             "$", "{", "i", "d", "}", Backtick, ");">>,
           CloseLine>>

\* C1 amended: for the two-path scenario document the common prefix is
\* '/api/users' (the first path is a prefix of the second) and exactly two
\* functions are emitted after the import line: get() calling the plain
\* literal '' and getId(id) calling the template /${id}.
C1_EndToEndScenarioWholeFirstPath ==
  (pc = "done" /\ spec = ScenarioDocument) =>
    /\ baseUrl = <<"/", "a", "p", "i", "/", "u", "s", "e", "r", "s">>
    /\ functions =
         <<ImportLine,
           <<"export async function ", "g", "e", "t", "(", "): Promise<any> {">>,
           <<"  return apiClient.", "g", "e", "t", "(", Quote, Quote, ");">>,
           CloseLine,
           <<"export async function ", "g", "e", "t", "I", "d",
             "(", "i", "d", "): Promise<any> {">>,
           <<"  return apiClient.", "g", "e", "t", "(",
             Backtick, "/", "$", "{", "i", "d", "}", Backtick, ");">>,
           CloseLine>>
    /\ routesContent = Join(functions, "\n")

\* The scenario document has been processed to the end.
C1_Witness ==
  /\ pc = "done"
  /\ spec = ScenarioDocument
  /\ Len(functions) = 7

\* C5: the relative path of every path entry is the path with the leading
\* occurrence of the base path removed: base path followed by relative path
\* is the path, also for an empty base and for a base that occurs again
\* later in the path.
C5_BasePlusRelativeIsPath ==
  /\ (pc \in {"paths", "methods", "done"} /\ pi >= 1) =>
       baseUrl \o relativePath = spec[pi].path
  /\ cur.set => baseUrl \o cur.relativePath = cur.path

\* A path in which the non-empty base path occurs a second time.
C5_Witness ==
  /\ pc = "methods"
  /\ baseUrl # Empty
  /\ \E at \in 1..Len(spec[pi].path) : OccursAt(spec[pi].path, baseUrl, at)
  /\ relativePath # Empty

\* the relative path holds a placeholder {name} with a non-empty name
HasPlaceholder(rel) ==
  \E i \in 1..Len(rel) : rel[i] = "{" /\ NextClose(rel, i + 1) >= i + 2

\* the operation declares a parameter whose in is 'path'
DeclaresPathParameter(operation) ==
  /\ operation.parameters.defined
  /\ \E k \in 1..Len(operation.parameters.items) :
       operation.parameters.items[k].in = "path"

\* expr is the plain single-quoted literal of rel
IsLiteralOf(expr, rel) == expr = <<Quote>> \o rel \o <<Quote>>

\* expr is a template literal whose text is rel with a '$' put in front of
\* every '{' and nowhere else
IsTemplateOf(expr, rel) ==
  /\ Len(expr) >= 2
  /\ expr[1] = Backtick /\ expr[Len(expr)] = Backtick
  /\ LET text == SubSeq(expr, 2, Len(expr) - 1)
     IN  /\ SelectSeq(text, LAMBDA c : c # "$") = rel
         /\ \A k \in 1..Len(text) :
              text[k] = "{" => (k > 1 /\ text[k - 1] = "$")
         /\ \A k \in 1..Len(text) :
              text[k] = "$" => (k < Len(text) /\ text[k + 1] = "{")

\* C6 as stated: the path expression is a plain literal exactly when the
\* relative path holds no placeholder, and a template with every placeholder
\* rewritten otherwise, whatever parameters the operation declares.
C6_TemplateChosenByPlaceholders ==
  cur.set =>
    /\ ~HasPlaceholder(cur.relativePath) =>
         IsLiteralOf(cur.apiPath, cur.relativePath)
    /\ HasPlaceholder(cur.relativePath) =>
         IsTemplateOf(cur.apiPath, cur.relativePath)

\* C6 amended: the path expression is a plain single-quoted literal of the
\* relative path exactly when the operation declares no parameter whose in
\* is 'path', whatever placeholders the relative path holds; otherwise it is
\* a template of the relative path with every '{' rewritten to '${'.
C6_TemplateChosenByDeclaredPathParameters ==
  cur.set =>
    /\ ~DeclaresPathParameter(cur.operation) =>
         IsLiteralOf(cur.apiPath, cur.relativePath)
    /\ DeclaresPathParameter(cur.operation) =>
         IsTemplateOf(cur.apiPath, cur.relativePath)

\* A function whose relative path holds a placeholder while its operation
\* declares no path parameter: the braces are emitted inside a plain literal.
C6_Witness ==
  /\ cur.set
  /\ HasPlaceholder(cur.relativePath)
  /\ ~DeclaresPathParameter(cur.operation)
  /\ cur.apiPath[1] = Quote

\* the names of the path parameters of a parameter list, in declaration order
RECURSIVE RefPathNames(_)
RefPathNames(items) ==
  IF Len(items) = 0
    THEN <<>>
    ELSE (IF Head(items).in = "path" THEN <<Head(items).name>> ELSE <<>>)
         \o RefPathNames(Tail(items))

\* the operation carries a request payload
PayloadPresent(operation) == operation.requestBody = "object"

\* C7: the formal parameters are the names of the declared path parameters
\* in declaration order (none for an absent list, other parameters omitted),
\* followed by the payload parameter exactly when a request payload is
\* present; the delegation call passes the payload as second argument exactly
\* then.
C7_FormalParameters ==
  cur.set =>
    LET pathNames == IF cur.operation.parameters.defined
                       THEN RefPathNames(cur.operation.parameters.items)
                       ELSE <<>>
        formals == pathNames \o (IF PayloadPresent(cur.operation)
                                   THEN << <<"requestBody: any">> >>
                                   ELSE <<>>)
    IN  /\ cur.functionDefinition =
             <<"export async function ">> \o cur.functionName \o <<"(">>
             \o Join(formals, ", ") \o <<"): Promise<any> {">>
        /\ cur.returnLine =
             <<"  return apiClient.">> \o ToLowerCase(cur.method) \o <<"(">>
             \o cur.apiPath
             \o (IF PayloadPresent(cur.operation)
                   THEN <<", requestBody);">>
                   ELSE <<");">>)

\* A post operation that declares a query parameter before two path
\* parameters and carries a payload.
C7_Witness ==
  /\ cur.set
  /\ cur.operation.parameters.defined
  /\ Len(cur.operation.parameters.items) = 3
  /\ cur.operation.parameters.items[1].in = "query"
  /\ cur.params = <<NameK, NameId>>
  /\ cur.hasRequestBody
  /\ cur.method = MethodPost

\* the (path index, method index) pairs of a document
DocPairs(d) ==
  UNION {{<<i, j>> : j \in 1..Len(d[i].methods)} : i \in 1..Len(d)}

\* declaration order of the pairs
Precedes(a, b) == a[1] < b[1] \/ (a[1] = b[1] /\ a[2] < b[2])

\* position of a pair in declaration order
Rank(d, pr) == 1 + Cardinality({q \in DocPairs(d) : Precedes(q, pr)})

\* C8: after the import line the output holds exactly one function (three
\* lines) per (path, method) pair taken so far, in declaration order, and at
\* the end one per pair of the document: none skipped, merged, deduplicated
\* or reordered.
C8_OneFunctionPerPairInOrder ==
  pc # "main" =>
    LET taken == {pr \in DocPairs(spec) :
                    pr[1] < pi \/ (pr[1] = pi /\ pr[2] <= mi)}
    IN  /\ Len(functions) = 1 + 3 * Cardinality(taken)
        /\ functions[1] = ImportLine
        /\ pc = "done" => taken = DocPairs(spec)
        /\ \A pr \in taken :
             LET n == Rank(spec, pr)
                 entry == spec[pr[1]]
                 m == entry.methods[pr[2]]
                 it == Iteration(entry.path, ReplaceFirst(entry.path, baseUrl),
                                 m.method, m.operation)
             IN  /\ functions[3 * n - 1] = it.functionDefinition
                 /\ functions[3 * n] = it.returnLine
                 /\ functions[3 * n + 1] = CloseLine

\* A finished run over a two-path document with three pairs, two of which
\* derive the same function declaration line and differ in the path called.
C8_Witness ==
  /\ pc = "done"
  /\ Len(spec) = 2
  /\ Len(functions) = 10
  /\ functions[5] = functions[8]
  /\ functions[6] # functions[9]

RequestBodyName == <<"r", "e", "q", "u", "e", "s", "t", "B", "o", "d", "y">>

\* the names interpolated by a template literal: for every '${' the text up
\* to the next '}' (up to the closing backquote when there is none)
InterpolatedNames(expr) ==
  IF expr[1] # Backtick
    THEN {}
    ELSE {LET close == NextClose(expr, i + 2)
          IN  SubSeq(expr, i + 2,
                     IF close = 0 THEN Len(expr) - 1 ELSE close - 1) :
            i \in {k \in 1..(Len(expr) - 1) :
                     expr[k] = "$" /\ expr[k + 1] = "{"}}

\* C10: every name interpolated in the emitted path template is a formal
\* parameter of the same function.
C10_InterpolationsAreBound ==
  cur.set =>
    \A name \in InterpolatedNames(cur.apiPath) :
      name \in Range(cur.params)
                 \cup (IF cur.hasRequestBody THEN {RequestBodyName} ELSE {})

====
